---------------------------- MODULE Spec2Model ----------------------------
(***************************************************************************)
(* Build-cache resolution of the docker daemon: the direct parent/config   *)
(* match (Daemon.GetCachedImage), the derivation of per-step layer facts   *)
(* from an image's history (makeHistoryWithSource), the per-candidate      *)
(* matching task (cacheSearchCoroutine) and the per-build resolver         *)
(* (daemonImageCacheForBuild.GetCachedImageOnBuild).                       *)
(*                                                                         *)
(* Go slices are 0-based; sequences here are 1-based, so a Go index k is   *)
(* element k + 1.  An index-out-of-range read is a run-time panic in Go;   *)
(* it is modelled as the outcome "panic", which ends the whole process.    *)
(***************************************************************************)
EXTENDS Integers, Sequences, FiniteSets, TLC

(***************************************************************************)
(* Bounds of the model.                                                    *)
(***************************************************************************)
MaxHist == 2        \* longest image history
NumLayerIDs == 2    \* distinct non-empty layer diff IDs
MaxImages == 3      \* images in the store of the direct matcher
MaxTime == 2        \* latest image creation time
NumBuildImages == 2 \* images in the store of a build
MaxCacheFrom == 2   \* longest list of cache-from names

(***************************************************************************)
(* Values.                                                                 *)
(***************************************************************************)
\* digest.DigestSha256EmptyTar, the diff ID of the empty layer
EmptyTar == 0

\* layer.DiffID values an image's RootFS.DiffIDs may hold; the diff ID of a
\* layer is the hash of its content alone, so an image may hold the same
\* diff ID twice, and may hold the empty tar's
DiffIDValues == 0..NumLayerIDs

\* History[i].CreatedBy values
Cmds == {"A", "B"}

\* History[i].Created values
HistTimes == {1, 2}

\* sequences over S of length at most n
SeqUpTo(S, n) == UNION {[1..k -> S] : k \in 0..n}

\* image.History entries
HistoryEntries == [CreatedBy : Cmds, EmptyLayer : BOOLEAN, Created : HistTimes]

\* the part of an image.Image that makeHistoryWithSource reads
HistImages == [History : SeqUpTo(HistoryEntries, MaxHist),
               DiffIDs : SeqUpTo(DiffIDValues, MaxHist)]

\* image.ID values; the empty ID "" of FROM scratch is ScratchID
ScratchID == 0
ImageIDs == 1..MaxImages

\* an ID the store's child index may enumerate although the store holds no
\* image under it (an inconsistent index)
DanglingID == MaxImages + 1

\* the nil *image.Image
NilImage == 0

\* containertypes.Config values: a build step's config is told apart by the
\* command it carries
Configs == Cmds

\* all orders in which the elements of the set S can be enumerated
Orders(S) ==
    {f \in [1..Cardinality(S) -> S] : \A i, j \in DOMAIN f : f[i] = f[j] => i = j}

VARIABLES
    imageStore, \* daemon.imageStore: image ID -> image
    hImage,     \* the image handed to makeHistoryWithSource
    hResult,    \* what makeHistoryWithSource returned for hImage, or NoResult
    dQuery,     \* the last call of GetCachedImage: its arguments and the
                \* order in which the store enumerated the siblings
    dResult,    \* what that call returned, or NoResult
    cacheFrom,  \* cache-from name -> data.cacheFromImage of its task
    co,         \* cache-from name -> the locals of its cacheSearchCoroutine:
                \* pc, historyWithSource, the index of h in the range loop,
                \* prevStepCachedLayers
    reqChan,    \* cache-from name -> data.reqChan: the request a sender
                \* is blocked on, and whether the channel is closed
    resChan,    \* cache-from name -> data.resChan: the response the task
                \* is blocked sending
    askLog,     \* cache-from name -> the requests its task has received,
                \* each with its outcome
    declared,   \* the cache-from names in the order the build declared them
    trk,        \* cache-from name -> the matching state the resolver keeps
                \* for it: cursor, emittedPrefix, closed
    plugin,     \* whether an ImageCachePlugin is registered
    step,       \* the last call of GetCachedImageOnBuild: its query, what
                \* each stage did, and the answer
    refStore,   \* daemon.referenceStore: image name -> image ID
    cache       \* the last call of MakeImageCacheForBuild: its argument,
                \* whether it returned, and the maps of the cache it built

vars == <<imageStore, hImage, hResult, dQuery, dResult,
          cacheFrom, co, reqChan, resChan, askLog,
          declared, trk, plugin, step, refStore, cache>>

histVars == <<hImage, hResult>>
directVars == <<dQuery, dResult>>
trackerVars == <<cacheFrom, co, reqChan, resChan, askLog>>
resolverVars == <<declared, trk, plugin, step, refStore, cache>>
makeVars == <<refStore, cache>>
taskVars == <<co, reqChan, resChan, askLog>>
nonTrackerVars == <<imageStore, hImage, hResult, dQuery, dResult, resolverVars>>

NoResult == [none |-> TRUE]
NoImage == [History |-> <<>>, DiffIDs |-> <<>>]
EmptyStore == <<>>

HistIdle == hImage = NoImage /\ hResult = NoResult
DirectIdle == dQuery = NoResult /\ dResult = NoResult
TasksIdle == co = <<>> /\ reqChan = <<>> /\ resChan = <<>> /\ askLog = <<>>
MakeIdle == refStore = <<>> /\ cache = NoResult
ResolverIdle ==
    /\ declared = <<>> /\ trk = <<>> /\ plugin = FALSE /\ step = NoResult
    /\ MakeIdle
TrackerIdle == cacheFrom = <<>> /\ TasksIdle /\ ResolverIdle

(***************************************************************************)
(* makeHistoryWithSource (HistoryDeriver).                                 *)
(***************************************************************************)
\* is the Go index idx inside image.RootFS.DiffIDs
InRange(image, idx) == idx >= 0 /\ idx < Len(image.DiffIDs)

\* image.RootFS.DiffIDs[idx]
DiffIDAt(image, idx) == image.DiffIDs[idx + 1]

NextLayerIndex_Always(h, layerIndex) == layerIndex + 1

\* "now increment, if needed"
NextLayerIndex(h, layerIndex) ==
    IF ~h.EmptyLayer THEN layerIndex + 1 ELSE layerIndex

\* the loop of makeHistoryWithSource from entry i on, layerIndex as left by
\* the entries before i, acc the steps filled in so far
RECURSIVE mhwsLoop(_, _, _, _)
mhwsLoop(image, i, layerIndex, acc) ==
    IF i > Len(image.History) THEN [panicked |-> FALSE, steps |-> acc]
    ELSE
      LET h == image.History[i]
          newIndex == NextLayerIndex(h, layerIndex)
      IN  IF \/ (layerIndex # -1 /\ ~InRange(image, layerIndex))
             \/ (newIndex # -1 /\ ~InRange(image, newIndex))
          THEN [panicked |-> TRUE, steps |-> <<>>]
          ELSE mhwsLoop(image, i + 1, newIndex,
                 Append(acc,
                   [sourceLayerID |->
                        IF layerIndex = -1 THEN EmptyTar
                        ELSE DiffIDAt(image, layerIndex),
                    cmd |-> h.CreatedBy,
                    resultingLayerID |->
                        IF newIndex = -1 THEN EmptyTar
                        ELSE DiffIDAt(image, newIndex),
                    createdAt |-> h.Created]))

makeHistoryWithSource(image) == mhwsLoop(image, 1, -1, <<>>)

(***************************************************************************)
(* SpecHistory: makeHistoryWithSource applied to every bounded image.      *)
(***************************************************************************)
InitHistory ==
    /\ hImage \in HistImages
    /\ hResult = NoResult
    /\ imageStore = EmptyStore
    /\ DirectIdle
    /\ TrackerIdle

DeriveHistory ==
    /\ hResult = NoResult
    /\ hResult' = makeHistoryWithSource(hImage)
    /\ UNCHANGED <<hImage, imageStore, directVars, trackerVars, resolverVars>>

NextHistory == DeriveHistory

SpecHistory == InitHistory /\ [][NextHistory]_vars

(***************************************************************************)
(* Daemon.GetCachedImage (DirectMatcher).                                  *)
(***************************************************************************)
\* runconfig.Compare
Compare(a, b) == a = b

\* imageStore.Get(id) returns an error
GetFails(store, id) == id \notin DOMAIN store

IsMoreRecent_Reversed(store, match, id) ==
    store[id].Created < store[match].Created

\* match.Created.Before(img.Created)
IsMoreRecent(store, match, id) ==
    store[match].Created < store[id].Created

LookupFailure_KeepsMatch(match) == [img |-> match, err |-> TRUE]

\* return nil, fmt.Errorf("unable to find image %q", id)
LookupFailure(match) == [img |-> NilImage, err |-> TRUE]

\* the loop of getMatch from sibling i on, match the best match so far
RECURSIVE getMatchLoop(_, _, _, _, _)
getMatchLoop(store, config, siblings, i, match) ==
    IF i > Len(siblings) THEN [img |-> match, err |-> FALSE]
    ELSE
      LET id == siblings[i]
      IN  IF GetFails(store, id) THEN LookupFailure(match)
          ELSE IF /\ Compare(store[id].ContainerConfig, config)
                  /\ (match = NilImage \/ IsMoreRecent(store, match, id))
               THEN getMatchLoop(store, config, siblings, i + 1, id)
               ELSE getMatchLoop(store, config, siblings, i + 1, match)

getMatch(store, config, siblings) ==
    getMatchLoop(store, config, siblings, 1, NilImage)

\* the orders in which imageStore.Children(imgID) may enumerate: the
\* children of imgID, with or without an ID the store cannot look up
ChildrenOrders(store, imgID) ==
    LET children == {id \in DOMAIN store : store[id].Parent = imgID}
    IN  Orders(children) \cup Orders(children \cup {DanglingID})

\* the orders in which ranging over imageStore.Map() may collect the images
\* with an empty parent
MapSiblingOrders(store, imgID) ==
    Orders({id \in DOMAIN store : store[id].Parent = imgID})

\* the sibling lists GetCachedImage may hand to getMatch
SiblingOrders(store, imgID) ==
    IF imgID = ScratchID THEN MapSiblingOrders(store, imgID)
    ELSE ChildrenOrders(store, imgID)

\* GetCachedImage(imgID, config), the store enumerating siblings
GetCachedImage(store, imgID, config, siblings) ==
    getMatch(store, config, siblings)

(***************************************************************************)
(* SpecDirect: GetCachedImage applied to every bounded store and query.    *)
(***************************************************************************)
\* stores of MaxImages images without history; an image is created after
\* its parent, so its parent has a smaller ID
DirectStores ==
    {st \in [ImageIDs -> [Parent : {ScratchID} \cup ImageIDs,
                          ContainerConfig : Configs,
                          Created : 1..MaxTime,
                          History : {<<>>}, DiffIDs : {<<>>}]] :
        \A id \in ImageIDs : st[id].Parent < id}

InitDirect ==
    /\ imageStore \in DirectStores
    /\ DirectIdle
    /\ HistIdle
    /\ TrackerIdle

CallGetCachedImage ==
    /\ dResult = NoResult
    /\ \E imgID \in {ScratchID} \cup ImageIDs, config \in Configs :
         \E siblings \in SiblingOrders(imageStore, imgID) :
            /\ dQuery' = [imgID |-> imgID, config |-> config,
                          siblings |-> siblings]
            /\ dResult' = GetCachedImage(imageStore, imgID, config, siblings)
    /\ UNCHANGED <<imageStore, histVars, trackerVars, resolverVars>>

NextDirect == CallGetCachedImage

SpecDirect == InitDirect /\ [][NextDirect]_vars

(***************************************************************************)
(* cacheSearchCoroutine (CandidateTracker): one task per cache-from image, *)
(* fed one request per build step over reqChan and answering on resChan.   *)
(***************************************************************************)
\* the nextLayerID "" of a response that reports no match
NoLayer == -1

\* the zero time.Time of a response that reports no match
ZeroTime == 0

\* a request: the next command of the build and the diff IDs of the layers
\* the build has so far
Requests == [nextCmd : Cmds, prevLayerIDs : SeqUpTo(1..NumLayerIDs, MaxHist)]

\* nextCachedLayerResponse{nextLayerID: ""}
MissResponse == [nextLayerID |-> NoLayer, createdAt |-> ZeroTime, cachedFrom |-> ""]

\* nextCachedLayerResponse{h.resultingLayerID, h.createdAt, name}
HitResponse(h, name) ==
    [nextLayerID |-> h.resultingLayerID, createdAt |-> h.createdAt,
     cachedFrom |-> name]

ResliceCached_Grow(image, prev) == SubSeq(image.DiffIDs, 1, Len(prev) + 1)

\* data.cacheFromImage.RootFS.DiffIDs[0:len(prevStepCachedLayers)]
ResliceCached(image, prev) == SubSeq(image.DiffIDs, 1, Len(prev))

\* "add prev to the list of all previous layers, if its not empty": the
\* value of prevStepCachedLayers when the task waits for the request of h
PrevAtStep(image, h, prev) ==
    IF h.sourceLayerID # EmptyTar THEN ResliceCached(image, prev) ELSE prev

InLoop_Exclusive(i, n) == i < n

\* the loop condition i <= len(prevStepCachedLayers)
InLoop(i, n) == i <= n

\* the comparison loop from Go index i on: "false" at the first differing
\* element, "true" when the loop condition ends it, "panic" when it indexes
\* either slice out of range
RECURSIVE compareLoop(_, _, _)
compareLoop(prev, reqPrev, i) ==
    IF ~InLoop(i, Len(prev)) THEN "true"
    ELSE IF i >= Len(prev) \/ i >= Len(reqPrev) THEN "panic"
    ELSE IF prev[i + 1] # reqPrev[i + 1] THEN "false"
    ELSE compareLoop(prev, reqPrev, i + 1)

\* matchesLayerIDs
MatchesLayerIDs(prev, reqPrev) ==
    IF Len(prev) = Len(reqPrev) THEN compareLoop(prev, reqPrev, 0)
    ELSE "false"

\* what the task does with request req at step h: it panics, or sends
\* the response
Answer(h, prev, req, name) ==
    LET m == MatchesLayerIDs(prev, req.prevLayerIDs)
    IN  IF m = "panic" THEN [panicked |-> TRUE, response |-> MissResponse]
        ELSE IF req.nextCmd = h.cmd /\ m = "true"
             THEN [panicked |-> FALSE, response |-> HitResponse(h, name)]
             ELSE [panicked |-> FALSE, response |-> MissResponse]

\* the outcome of a request as the log keeps it
Outcome(answer) ==
    IF answer.panicked THEN "panic"
    ELSE IF answer.response.nextLayerID = NoLayer THEN "miss" ELSE "hit"

\* a panic in any task ends the process
Crashed == \E n \in DOMAIN co : co[n].pc = "panic"

\* the task enters the range loop at index next, or leaves it
EnterStep(c, image, next) ==
    IF next > Len(c.historyWithSource)
    THEN [c EXCEPT !.pc = "done", !.next = next]
    ELSE [c EXCEPT !.pc = "recv", !.next = next,
                   !.prevStepCachedLayers =
                       PrevAtStep(image, c.historyWithSource[next],
                                  c.prevStepCachedLayers)]

\* the task starts: it derives the history of its image and enters the loop
CoroutineBegin(n) ==
    /\ ~Crashed
    /\ co[n].pc = "start"
    /\ LET d == makeHistoryWithSource(cacheFrom[n])
       IN  co' = [co EXCEPT ![n] =
                    IF d.panicked THEN [@ EXCEPT !.pc = "panic"]
                    ELSE EnterStep([@ EXCEPT !.historyWithSource = d.steps],
                                   cacheFrom[n], 1)]
    /\ UNCHANGED <<cacheFrom, reqChan, resChan, askLog>>
    /\ UNCHANGED nonTrackerVars

\* a sender offers one of the requests reqs on reqChan; one request is
\* outstanding at a time
SendRequestFrom(n, reqs) ==
    /\ ~Crashed
    /\ ~reqChan[n].closed
    /\ reqChan[n].msg = <<>>
    /\ resChan[n] = <<>>
    /\ co[n].pc # "send"
    /\ \E req \in reqs :
          reqChan' = [reqChan EXCEPT ![n].msg = <<req>>]
    /\ UNCHANGED <<cacheFrom, co, resChan, askLog>>
    /\ UNCHANGED nonTrackerVars

SendRequest(n) == SendRequestFrom(n, Requests)

\* req, ok := <-data.reqChan with ok: the task compares the request with
\* its step and blocks sending the response, or panics
CoroutineReceive(n) ==
    /\ ~Crashed
    /\ co[n].pc = "recv"
    /\ reqChan[n].msg # <<>>
    /\ LET req == reqChan[n].msg[1]
           h == co[n].historyWithSource[co[n].next]
           a == Answer(h, co[n].prevStepCachedLayers, req, n)
       IN  /\ askLog' = [askLog EXCEPT ![n] =
                 Append(@, [nextCmd |-> req.nextCmd,
                            prevLayerIDs |-> req.prevLayerIDs,
                            step |-> co[n].next,
                            outcome |-> Outcome(a),
                            nextLayerID |-> a.response.nextLayerID,
                            createdAt |-> a.response.createdAt])]
           /\ IF a.panicked
              THEN /\ co' = [co EXCEPT ![n].pc = "panic"]
                   /\ UNCHANGED resChan
              ELSE /\ co' = [co EXCEPT ![n].pc = "send"]
                   /\ resChan' = [resChan EXCEPT ![n] = <<a.response>>]
    /\ reqChan' = [reqChan EXCEPT ![n].msg = <<>>]
    /\ UNCHANGED cacheFrom
    /\ UNCHANGED nonTrackerVars

\* req, ok := <-data.reqChan with !ok: the channel is closed, the task ends
CoroutineReceiveClosed(n) ==
    /\ ~Crashed
    /\ co[n].pc = "recv"
    /\ reqChan[n].closed
    /\ reqChan[n].msg = <<>>
    /\ co' = [co EXCEPT ![n].pc = "done"]
    /\ UNCHANGED <<cacheFrom, reqChan, resChan, askLog>>
    /\ UNCHANGED nonTrackerVars

\* the response is taken from resChan; the task goes on to its next step
TakeResponse(n) ==
    /\ ~Crashed
    /\ co[n].pc = "send"
    /\ resChan[n] # <<>>
    /\ resChan' = [resChan EXCEPT ![n] = <<>>]
    /\ co' = [co EXCEPT ![n] = EnterStep(@, cacheFrom[n], @.next + 1)]
    /\ UNCHANGED <<cacheFrom, reqChan, askLog>>
    /\ UNCHANGED nonTrackerVars

\* the request channel is closed at the end of the build
CloseRequests(n) ==
    /\ ~Crashed
    /\ ~reqChan[n].closed
    /\ reqChan[n].msg = <<>>
    /\ co[n].pc # "send"
    /\ reqChan' = [reqChan EXCEPT ![n].closed = TRUE]
    /\ UNCHANGED <<cacheFrom, co, resChan, askLog>>
    /\ UNCHANGED nonTrackerVars

(***************************************************************************)
(* SpecTracker: a task over every bounded image satisfying the count       *)
(* invariant, sent every bounded sequence of requests.                     *)
(***************************************************************************)
TrackerNames == {"a"}

\* images satisfying the count invariant, entry i created at time i
TrackerImages ==
    {img \in [History : SeqUpTo([CreatedBy : Cmds, EmptyLayer : BOOLEAN,
                                 Created : 1..MaxHist], MaxHist),
              DiffIDs : SeqUpTo(DiffIDValues, MaxHist)] :
        /\ \A i \in 1..Len(img.History) : img.History[i].Created = i
        /\ Cardinality({i \in 1..Len(img.History) : ~img.History[i].EmptyLayer})
              = Len(img.DiffIDs)}

InitTracker ==
    /\ cacheFrom \in [TrackerNames -> TrackerImages]
    /\ co = [n \in TrackerNames |->
                [pc |-> "start", historyWithSource |-> <<>>, next |-> 0,
                 prevStepCachedLayers |-> <<>>]]
    /\ reqChan = [n \in TrackerNames |-> [closed |-> FALSE, msg |-> <<>>]]
    /\ resChan = [n \in TrackerNames |-> <<>>]
    /\ askLog = [n \in TrackerNames |-> <<>>]
    /\ imageStore = EmptyStore
    /\ HistIdle
    /\ DirectIdle
    /\ ResolverIdle

NextTracker ==
    \/ \E n \in TrackerNames : CoroutineBegin(n)
    \/ \E n \in TrackerNames : SendRequest(n)
    \/ \E n \in TrackerNames : CoroutineReceive(n)
    \/ \E n \in TrackerNames : CoroutineReceiveClosed(n)
    \/ \E n \in TrackerNames : TakeResponse(n)
    \/ \E n \in TrackerNames : CloseRequests(n)

SpecTracker == InitTracker /\ [][NextTracker]_vars

(***************************************************************************)
(* SpecTwoTasks: the tasks of two cache-from images running side by side,  *)
(* each over an image of at most one history entry, the build sending each *)
(* the same kind of request.                                               *)
(***************************************************************************)
TaskPair == {"a", "b"}

PairImages == {img \in TrackerImages : Len(img.History) <= 1}

PairRequests == {req \in Requests : Len(req.prevLayerIDs) <= 1}

InitTwoTasks ==
    /\ cacheFrom \in [TaskPair -> PairImages]
    /\ co = [n \in TaskPair |->
                [pc |-> "start", historyWithSource |-> <<>>, next |-> 0,
                 prevStepCachedLayers |-> <<>>]]
    /\ reqChan = [n \in TaskPair |-> [closed |-> FALSE, msg |-> <<>>]]
    /\ resChan = [n \in TaskPair |-> <<>>]
    /\ askLog = [n \in TaskPair |-> <<>>]
    /\ imageStore = EmptyStore
    /\ HistIdle
    /\ DirectIdle
    /\ ResolverIdle

SendPairRequest(n) == SendRequestFrom(n, PairRequests)

NextTwoTasks ==
    \/ \E n \in TaskPair : CoroutineBegin(n)
    \/ \E n \in TaskPair : SendPairRequest(n)
    \/ \E n \in TaskPair : CoroutineReceive(n)
    \/ \E n \in TaskPair : CoroutineReceiveClosed(n)
    \/ \E n \in TaskPair : TakeResponse(n)
    \/ \E n \in TaskPair : CloseRequests(n)

SpecTwoTasks == InitTwoTasks /\ [][NextTwoTasks]_vars

(***************************************************************************)
(* Daemon.GetImageID and Daemon.GetImage, for an image ID.                 *)
(***************************************************************************)
\* reference.ParseIDOrReference returns an error: the empty ID is neither
\* an ID nor a reference
ParseFails(imgID) == imgID = ScratchID

\* GetImage(imgID): the image, or an error when the ID does not parse or
\* the store holds no image under it
GetImage(store, imgID) ==
    IF ParseFails(imgID) \/ GetFails(store, imgID)
    THEN [img |-> NilImage, err |-> TRUE]
    ELSE [img |-> imgID, err |-> FALSE]

(***************************************************************************)
(* The matching state of one cache-from candidate and its Ask operation.   *)
(* GetCachedImageOnBuild ends inside its loop over the candidates (line    *)
(* 280); the comparison of a candidate with the query, the choice among    *)
(* the matches and the plugin fallback follow the design of the resolver.  *)
(***************************************************************************)
NewTracker == [cursor |-> 0, emittedPrefix |-> <<>>, closed |-> FALSE]

\* the last layer of a prefix, the empty layer for the empty prefix
PrefixTail(prefix) ==
    IF prefix = <<>> THEN EmptyTar ELSE prefix[Len(prefix)]

\* Ask(command, precedingLayers) on tracker state t over steps
TrackerAsk(t, steps, cmd, prev) ==
    IF t.closed
    THEN [trk |-> t, matched |-> FALSE, response |-> MissResponse]
    ELSE IF t.cursor >= Len(steps)
    THEN [trk |-> [t EXCEPT !.closed = TRUE], matched |-> FALSE,
          response |-> MissResponse]
    ELSE LET h == steps[t.cursor + 1]
         IN  IF cmd = h.cmd /\ prev = t.emittedPrefix
             THEN [trk |-> [t EXCEPT
                      !.cursor = @ + 1,
                      !.emittedPrefix =
                          IF h.resultingLayerID # PrefixTail(@)
                          THEN Append(@, h.resultingLayerID) ELSE @],
                   matched |-> TRUE,
                   response |-> [nextLayerID |-> h.resultingLayerID,
                                 createdAt |-> h.createdAt,
                                 cachedFrom |-> ""]]
             ELSE [trk |-> [t EXCEPT !.closed = TRUE], matched |-> FALSE,
                   response |-> MissResponse]

\* a resolver that asks a candidate again after it timed out
AfterTimeout_StaysOpen(t) == t

\* a candidate that has not answered when the per-step timeout elapses is
\* closed
AfterTimeout(t) == [t EXCEPT !.closed = TRUE]

(***************************************************************************)
(* The plugin boundary (ImageCachePlugin.WantsCachedImage).                *)
(***************************************************************************)
\* what a call of WantsCachedImage may come to: an error, a timeout, or a
\* WantsCachedImageResponse with any ImageId and Err
PluginOutcomes(store) ==
    [kind : {"error", "timeout"}, ImageId : {ScratchID}, Err : {""}]
    \cup [kind : {"response"},
          ImageId : {ScratchID, DanglingID} \cup DOMAIN store,
          Err : {"", "failed"}]

\* a plugin that trusts any ID the response names
PluginAccepted_NoStoreCheck(store, o) ==
    /\ o.kind = "response"
    /\ o.Err = ""
    /\ o.ImageId # ScratchID

\* a plugin outcome is a hit: a response without Err whose ImageId is not
\* empty and is in the image store
PluginAccepted(store, o) ==
    /\ o.kind = "response"
    /\ o.Err = ""
    /\ o.ImageId # ScratchID
    /\ ~GetFails(store, o.ImageId)

(***************************************************************************)
(* daemonImageCacheForBuild.GetCachedImageOnBuild (CacheResolver).         *)
(***************************************************************************)
\* cache.cacheFromImageHistories[name]
CacheFromImageHistory(cf, name) == makeHistoryWithSource(cf[name]).steps

DirectHit_Never(d) == FALSE

\* cachedImage != nil
DirectHit(d) == d.img # NilImage

\* len(cache.cacheFromImageHistories[name]) <= len(parentImageHistory):
\* "there is no possibility of a match", the candidate is passed over
NoPossibleMatch(cfHistory, parentHistory) ==
    Len(cfHistory) <= Len(parentHistory)

\* the orders in which "range cache.cacheFromImages" may visit the names:
\* the iteration order of a Go map is not specified
RangeOrders(cf) == Orders(DOMAIN cf)

\* the loop over the candidates from position i of the visiting order on;
\* q holds the parent's history, the command, the preceding layers and the
\* candidates that time out; acc the tracker states, the matches in
\* visiting order and what each candidate did
RECURSIVE askTrackers(_, _, _, _, _)
askTrackers(cf, order, i, q, acc) ==
    IF i > Len(order) THEN acc
    ELSE
      LET name == order[i]
          t == acc.trk[name]
      IN  IF NoPossibleMatch(CacheFromImageHistory(cf, name), q.parentHistory)
          THEN askTrackers(cf, order, i + 1, q,
                 [acc EXCEPT !.asked[name] = "passed"])
          ELSE IF t.closed
          THEN askTrackers(cf, order, i + 1, q,
                 [acc EXCEPT !.asked[name] = "closed"])
          ELSE IF name \in q.timedOut
          THEN askTrackers(cf, order, i + 1, q,
                 [acc EXCEPT !.asked[name] = "timeout",
                             !.trk[name] = AfterTimeout(@)])
          ELSE
            LET a == TrackerAsk(t, CacheFromImageHistory(cf, name),
                                q.cmd, q.prev)
            IN  askTrackers(cf, order, i + 1, q,
                  [acc EXCEPT
                     !.asked[name] = IF a.matched THEN "hit" ELSE "miss",
                     !.trk[name] = a.trk,
                     !.matches = IF a.matched
                                 THEN Append(@, [a.response EXCEPT
                                                   !.cachedFrom = name])
                                 ELSE @])

\* the match the resolver answers with: the first it collected
SelectMatch(matches) == matches[1]

\* extractCommand(config)
ExtractCommand(config) == config

NoAnswer == [found |-> FALSE, id |-> ScratchID, err |-> FALSE,
             cachedFrom |-> "", nextLayerID |-> NoLayer]

\* return "", err
ErrorAnswer == [NoAnswer EXCEPT !.err = TRUE]

\* return cachedImage.ID().String(), nil
ImageAnswer(id) == [NoAnswer EXCEPT !.found = TRUE, !.id = id]

\* the answer taken from a tracker's response
TrackerAnswer(m) ==
    [NoAnswer EXCEPT !.found = TRUE, !.cachedFrom = m.cachedFrom,
                     !.nextLayerID = m.nextLayerID]

\* a step record before any stage has run
NewStep(imgID, config) ==
    [query |-> [imgID |-> imgID, config |-> config],
     direct |-> [img |-> NilImage, err |-> FALSE],
     stage |-> "direct",
     asked |-> <<>>,
     pluginCalled |-> FALSE, pluginOutcome |-> NoResult,
     answer |-> NoAnswer]

\* the candidates the loop asks: those not passed over and not closed
Askable(cf, trks, parentHistory) ==
    {n \in DOMAIN cf :
        /\ ~NoPossibleMatch(CacheFromImageHistory(cf, n), parentHistory)
        /\ ~trks[n].closed}

\* a resolver that invokes a registered plugin whatever the candidates said
PluginTurn_Always(matches, plug) == plug

\* the plugin is invoked when no candidate matched and one is registered
PluginTurn(matches, plug) == matches = <<>> /\ plug

\* what the loop over the candidates may come to for the query q, over
\* the orders of the range loop and the candidates that time out
AskResults(cf, trks, q) ==
    {askTrackers(cf, order, 1, [q EXCEPT !.timedOut = timedOut],
                 [trk |-> trks, matches |-> <<>>,
                  asked |-> [n \in DOMAIN cf |-> "none"]]) :
        order \in RangeOrders(cf),
        timedOut \in SUBSET Askable(cf, trks, q.parentHistory)}

\* the stages after the direct match and the parent lookup: the loop over
\* the candidates, the choice among the matches, the plugin
AfterParentLookup(st, store, cf, trks, plug, parent) ==
    LET ph == makeHistoryWithSource(store[parent])
    IN  IF ph.panicked
        THEN {[step |-> [st EXCEPT !.stage = "panic"], trk |-> trks]}
        ELSE UNION {
          LET asked == [st EXCEPT !.asked = a.asked]
          IN  IF PluginTurn(a.matches, plug)
              THEN {[step |-> [asked EXCEPT
                                 !.stage = "plugin",
                                 !.pluginCalled = TRUE,
                                 !.pluginOutcome = o,
                                 !.answer = IF PluginAccepted(store, o)
                                            THEN ImageAnswer(o.ImageId)
                                            ELSE NoAnswer],
                     trk |-> a.trk] : o \in PluginOutcomes(store)}
              ELSE IF a.matches # <<>>
              THEN {[step |-> [asked EXCEPT
                                 !.stage = "trackers",
                                 !.answer = TrackerAnswer(SelectMatch(a.matches))],
                     trk |-> a.trk]}
              ELSE {[step |-> [asked EXCEPT !.stage = "miss"],
                     trk |-> a.trk]}
          : a \in AskResults(cf, trks,
                     [parentHistory |-> ph.steps,
                      cmd |-> ExtractCommand(st.query.config),
                      prev |-> store[parent].DiffIDs,
                      timedOut |-> {}])}

\* what GetCachedImage(imgID, config) may return, over the orders in which
\* the store may enumerate the siblings
DirectResults(store, imgID, config) ==
    {GetCachedImage(store, imgID, config, siblings) :
        siblings \in SiblingOrders(store, imgID)}

\* GetCachedImageOnBuild(imgID, cfg), GetCachedImage returning d: the step
\* records and tracker states the call may end in
GetCachedImageOnBuild(store, cf, trks, plug, imgID, config, d) ==
    LET st == NewStep(imgID, config)
        st1 == [st EXCEPT !.direct = d]
    IN  IF d.err
        THEN {[step |-> [st1 EXCEPT !.stage = "directError",
                                    !.answer = ErrorAnswer],
               trk |-> trks]}
        ELSE IF DirectHit(d)
        THEN {[step |-> [st1 EXCEPT !.answer = ImageAnswer(d.img)],
               trk |-> trks]}
        ELSE LET p == GetImage(store, imgID)
             IN  IF p.err
                 THEN {[step |-> [st1 EXCEPT !.stage = "parentError",
                                             !.answer = ErrorAnswer],
                        trk |-> trks]}
                 ELSE AfterParentLookup(st1, store, cf, trks, plug, p.img)

(***************************************************************************)
(* Spec: one build.  The store holds NumBuildImages images, each made from *)
(* its parent by one instruction; the cache-from names are resolved to     *)
(* images of the store; the build calls GetCachedImageOnBuild once per     *)
(* instruction.                                                            *)
(***************************************************************************)
BuildIDs == 1..NumBuildImages

\* what tells the images of a store apart: parent, config, and the layer
\* the instruction produced (EmptyTar: it produced none).  Layer IDs are
\* interchangeable, so image id takes its layer among the first id of them
BuildShapes ==
    {sh \in [BuildIDs -> [Parent : {ScratchID} \cup BuildIDs,
                          ContainerConfig : Configs,
                          layer : {EmptyTar} \cup (1..NumLayerIDs)]] :
        \A id \in BuildIDs : sh[id].Parent < id /\ sh[id].layer <= id}

\* the image with the given ID in the store of the given shape: the
\* history and layers of its parent, and its own instruction
RECURSIVE BuildImage(_, _)
BuildImage(sh, id) ==
    LET base == IF sh[id].Parent = ScratchID THEN NoImage
                ELSE BuildImage(sh, sh[id].Parent)
    IN  [Parent |-> sh[id].Parent,
         ContainerConfig |-> sh[id].ContainerConfig,
         Created |-> id,
         History |-> Append(base.History,
                       [CreatedBy |-> sh[id].ContainerConfig,
                        EmptyLayer |-> sh[id].layer = EmptyTar,
                        Created |-> id]),
         DiffIDs |-> IF sh[id].layer = EmptyTar THEN base.DiffIDs
                     ELSE Append(base.DiffIDs, sh[id].layer)]

BuildStores == {[id \in BuildIDs |-> BuildImage(sh, id)] : sh \in BuildShapes}

CacheFromNames == {"a", "b"}

Init ==
    /\ imageStore \in BuildStores
    /\ declared = <<"a", "b">>
    /\ \E ids \in [CacheFromNames -> BuildIDs] :
          cacheFrom = [n \in CacheFromNames |-> imageStore[ids[n]]]
    /\ trk = [n \in CacheFromNames |-> NewTracker]
    /\ plugin \in BOOLEAN
    /\ step = NoResult
    /\ MakeIdle
    /\ TasksIdle
    /\ HistIdle
    /\ DirectIdle

\* the build calls GetCachedImageOnBuild for its next instruction
CallGetCachedImageOnBuild ==
    /\ step # NoResult => step.stage # "panic"
    /\ \E imgID \in {ScratchID, DanglingID} \cup BuildIDs, config \in Configs :
         \E d \in DirectResults(imageStore, imgID, config) :
           \E o \in GetCachedImageOnBuild(imageStore, cacheFrom, trk, plugin,
                                          imgID, config, d) :
              /\ step' = o.step
              /\ trk' = o.trk
    /\ UNCHANGED <<imageStore, cacheFrom, declared, plugin, taskVars,
                   histVars, directVars, makeVars>>

Next == CallGetCachedImageOnBuild

Spec == Init /\ [][Next]_vars

(***************************************************************************)
(* Daemon.MakeImageCacheForBuild: the construction of the per-build cache  *)
(* from the list of cache-from names.                                      *)
(***************************************************************************)
\* a Go map that was never made: reading it finds nothing, assigning to it
\* is a run-time panic
NilMap == [nil |-> TRUE, entries |-> <<>>]

\* a map made empty
EmptyMap == [nil |-> FALSE, entries |-> <<>>]

NewCacheMap_Made == EmptyMap

\* the value of a map field of &daemonImageCacheForBuild{daemon: daemon}:
\* the literal sets daemon only
NewCacheMap == NilMap

\* the keys of a map
MapKeys(m) == DOMAIN m.entries

\* m[k] = v on a map that was made
MapAssign(m, k, v) ==
    [m EXCEPT !.entries =
        [x \in MapKeys(m) \cup {k} |-> IF x = k THEN v ELSE m.entries[x]]]

\* the image names a build may give
RefNames == {"a", "b"}

\* daemon.GetImage(name): the reference store knows the name and the image
\* store holds the image it names, or an error
GetImageByName(store, refs, name) ==
    IF name \notin DOMAIN refs \/ GetFails(store, refs[name])
    THEN [img |-> NilImage, err |-> TRUE]
    ELSE [img |-> refs[name], err |-> FALSE]

\* the loop over cacheFrom from position i on, c the cache so far
RECURSIVE makeCacheLoop(_, _, _, _, _)
makeCacheLoop(store, refs, names, i, c) ==
    IF i > Len(names) THEN [c EXCEPT !.pc = "returned"]
    ELSE
      LET got == GetImageByName(store, refs, names[i])
      IN  IF got.err
          THEN makeCacheLoop(store, refs, names, i + 1, c)
          ELSE IF c.cacheFromImages.nil
          THEN [c EXCEPT !.pc = "panic"]
          ELSE LET d == makeHistoryWithSource(store[got.img])
               IN  IF d.panicked \/ c.cacheFromImageHistories.nil
                   THEN [c EXCEPT
                           !.pc = "panic",
                           !.cacheFromImages =
                               MapAssign(@, names[i], store[got.img])]
                   ELSE makeCacheLoop(store, refs, names, i + 1,
                          [c EXCEPT
                             !.cacheFromImages =
                                 MapAssign(@, names[i], store[got.img]),
                             !.cacheFromImageHistories =
                                 MapAssign(@, names[i], d.steps)])

\* MakeImageCacheForBuild(cacheFrom)
MakeImageCacheForBuild(store, refs, names) ==
    makeCacheLoop(store, refs, names, 1,
        [pc |-> "loop", arg |-> names,
         cacheFromImages |-> NewCacheMap,
         cacheFromImageHistories |-> NewCacheMap])

(***************************************************************************)
(* SpecMake: a cache constructed over every bounded store, reference       *)
(* store and list of names.                                                *)
(***************************************************************************)
\* reference stores: some of the names, each naming a stored image or an
\* image the store no longer holds
RefStores ==
    UNION {[dom -> BuildIDs \cup {DanglingID}] : dom \in SUBSET RefNames}

InitMake ==
    /\ imageStore \in BuildStores
    /\ refStore \in RefStores
    /\ cache = NoResult
    /\ declared = <<>> /\ trk = <<>> /\ plugin = FALSE /\ step = NoResult
    /\ cacheFrom = <<>>
    /\ TasksIdle
    /\ HistIdle
    /\ DirectIdle

CallMakeImageCacheForBuild ==
    /\ cache = NoResult
    /\ \E names \in SeqUpTo(RefNames, MaxCacheFrom) :
          cache' = MakeImageCacheForBuild(imageStore, refStore, names)
    /\ UNCHANGED <<imageStore, refStore, declared, trk, plugin, step,
                   trackerVars, histVars, directVars>>

NextMake == CallMakeImageCacheForBuild

SpecMake == InitMake /\ [][NextMake]_vars

(***************************************************************************)
(* Claims about GetCachedImage.                                            *)
(***************************************************************************)
\* the images of the store with the given parent and a config equal to the
\* given one
Candidates(store, imgID, config) ==
    {id \in DOMAIN store : /\ store[id].Parent = imgID
                           /\ Compare(store[id].ContainerConfig, config)}

\* C8: GetCachedImage returns, among the images whose parent is the given
\* ID and whose config equals the query's, one of greatest Created; it
\* returns no image of another parent or an unequal config, and no older
\* candidate when a newer one exists.
C8_MostRecentMatch ==
    dResult # NoResult =>
      LET cands == Candidates(imageStore, dQuery.imgID, dQuery.config)
      IN  /\ dResult.img # NilImage =>
               /\ dResult.img \in cands
               /\ \A c \in cands :
                     imageStore[c].Created <= imageStore[dResult.img].Created
          /\ (~dResult.err /\ cands # {}) => dResult.img # NilImage

\* two config-equal children of the queried parent with different creation
\* times, and the call returned an image
C8_Witness ==
    /\ dResult # NoResult
    /\ dResult.img # NilImage
    /\ \E c1, c2 \in Candidates(imageStore, dQuery.imgID, dQuery.config) :
          imageStore[c1].Created < imageStore[c2].Created

C9_WitnessNoChildren ==
    /\ dResult # NoResult
    /\ dQuery.siblings = <<>>
    /\ dResult = [img |-> NilImage, err |-> FALSE]

\* the elements of a sequence
Range(seq) == {seq[i] : i \in DOMAIN seq}

\* C17: for the same store, parent and config, GetCachedImage returns the
\* same image in whatever order the store enumerates the siblings, also
\* when several config-equal siblings share the greatest creation time.
C17_OrderIndependent ==
    dResult # NoResult =>
        \A siblings \in SiblingOrders(imageStore, dQuery.imgID) :
            Range(siblings) = Range(dQuery.siblings) =>
                GetCachedImage(imageStore, dQuery.imgID, dQuery.config,
                               siblings) = dResult

(***************************************************************************)
(* Claims about makeHistoryWithSource.                                     *)
(***************************************************************************)
\* the count invariant of an image: as many layer-producing history
\* entries as diff IDs
CountInvariant(image) ==
    Cardinality({i \in 1..Len(image.History) : ~image.History[i].EmptyLayer})
        = Len(image.DiffIDs)

\* the number of layer-producing entries among the first i
ProducedUpTo(image, i) ==
    Cardinality({j \in 1..i : ~image.History[j].EmptyLayer})

\* steps has the length and order of the history, starts at the empty
\* layer and chains each source to the previous result
StepsChain(image, steps) ==
    /\ Len(steps) = Len(image.History)
    /\ \A i \in 1..Len(steps) :
          /\ steps[i].cmd = image.History[i].CreatedBy
          /\ steps[i].createdAt = image.History[i].Created
          /\ steps[i].sourceLayerID =
                IF i = 1 THEN EmptyTar ELSE steps[i - 1].resultingLayerID

\* C10 as stated: for every image satisfying the count invariant the derived
\* steps have the length and order of History, the first source is the
\* empty-layer sentinel, each later source is the previous result, and a
\* step's result differs from its source exactly when its entry produces a
\* layer (and is then the next diff ID in order).
C10_AsStated ==
    (hResult # NoResult /\ CountInvariant(hImage)) =>
        /\ ~hResult.panicked
        /\ StepsChain(hImage, hResult.steps)
        /\ \A i \in 1..Len(hResult.steps) :
              /\ (hResult.steps[i].resultingLayerID
                     # hResult.steps[i].sourceLayerID)
                   <=> ~hImage.History[i].EmptyLayer
              /\ ~hImage.History[i].EmptyLayer =>
                    hResult.steps[i].resultingLayerID
                       = hImage.DiffIDs[ProducedUpTo(hImage, i)]

\* C10 amended: as above, but a step whose entry produces a layer results in
\* the next diff ID in order whether or not that diff ID differs from the
\* source, and a step whose entry produces none results in its source.
C10_DerivedSteps ==
    (hResult # NoResult /\ CountInvariant(hImage)) =>
        /\ ~hResult.panicked
        /\ StepsChain(hImage, hResult.steps)
        /\ \A i \in 1..Len(hResult.steps) :
              IF hImage.History[i].EmptyLayer
              THEN hResult.steps[i].resultingLayerID
                      = hResult.steps[i].sourceLayerID
              ELSE hResult.steps[i].resultingLayerID
                      = hImage.DiffIDs[ProducedUpTo(hImage, i)]

\* a derived history of two steps, the first producing no layer and the
\* second producing one
C10_Witness ==
    /\ hResult # NoResult
    /\ CountInvariant(hImage)
    /\ Len(hImage.History) = 2
    /\ hImage.History[1].EmptyLayer
    /\ ~hImage.History[2].EmptyLayer
    /\ ~hResult.panicked
    /\ Len(hResult.steps) = 2

\* C11: deriving the history of an image that has more layer-producing
\* entries than diff IDs fails with an error value: it reads no diff ID
\* out of range and returns no partial step sequence.
C11_CorruptHistoryIsError ==
    (/\ hResult # NoResult
     /\ ProducedUpTo(hImage, Len(hImage.History)) > Len(hImage.DiffIDs))
    => ~hResult.panicked

(***************************************************************************)
(* Claims about cacheSearchCoroutine.                                      *)
(***************************************************************************)
\* C2: once a task has answered a request with a mismatch, every later
\* request to it is answered with a mismatch, whatever it asks.
C2_ClosedForGood ==
    \A n \in DOMAIN askLog :
        \A i, j \in DOMAIN askLog[n] :
            (i < j /\ askLog[n][i].outcome = "miss") =>
                askLog[n][j].outcome = "miss"

\* the k-th request of the replay of an image: its k-th command, preceded
\* by the layers its first k - 1 history entries produced
ReplayRequest(image, k) ==
    [nextCmd |-> image.History[k].CreatedBy,
     prevLayerIDs |-> SubSeq(image.DiffIDs, 1, ProducedUpTo(image, k - 1))]

\* every request task n has received so far is the replay of its own image
IsReplay(n) ==
    \A k \in DOMAIN askLog[n] :
        /\ k <= Len(cacheFrom[n].History)
        /\ askLog[n][k].nextCmd = ReplayRequest(cacheFrom[n], k).nextCmd
        /\ askLog[n][k].prevLayerIDs
              = ReplayRequest(cacheFrom[n], k).prevLayerIDs

\* the last layer of an image, the empty layer if it has none
FinalLayer(image) ==
    IF image.DiffIDs = <<>> THEN EmptyTar
    ELSE image.DiffIDs[Len(image.DiffIDs)]

\* C3: replaying an image's own commands to its task, each preceded by the
\* layers confirmed so far, matches at every step, and the answer to the
\* last command carries the image's final layer.
C3_ReplayMatches ==
    \A n \in DOMAIN askLog :
        IsReplay(n) =>
            \A k \in DOMAIN askLog[n] :
                /\ askLog[n][k].outcome = "hit"
                /\ k = Len(cacheFrom[n].History) =>
                      askLog[n][k].nextLayerID = FinalLayer(cacheFrom[n])

\* task n was open when it received its k-th request: it had matched every
\* request before
OpenAt(n, k) == \A j \in 1..(k - 1) : askLog[n][j].outcome = "hit"

\* the layers the image's first i history entries produced
EmittedUpTo(image, i) == SubSeq(image.DiffIDs, 1, ProducedUpTo(image, i))

\* C14: a request to an open task that has steps left is answered with a
\* match exactly when its command equals the command of the step at the
\* cursor and its preceding layers equal the layers the matched steps
\* produced; a match carries that step's resulting layer and creation time.
C14_AskMatches ==
    \A n \in DOMAIN askLog :
        \A k \in DOMAIN askLog[n] :
            OpenAt(n, k) =>
                LET e == askLog[n][k]
                    h == makeHistoryWithSource(cacheFrom[n]).steps[e.step]
                IN  /\ e.outcome = "hit" <=>
                          /\ e.nextCmd = h.cmd
                          /\ e.prevLayerIDs
                                = EmittedUpTo(cacheFrom[n], e.step - 1)
                    /\ e.outcome = "hit" =>
                          /\ e.nextLayerID = h.resultingLayerID
                          /\ e.createdAt = h.createdAt

\* the number of requests task n has answered with a match
Matched(n) ==
    Cardinality({j \in DOMAIN askLog[n] : askLog[n][j].outcome = "hit"})

\* C15: a task that is still taking requests stands at the step after the
\* ones it matched, and the layers it has accumulated are the diff IDs
\* that those steps produced, in order: a match moves it on by one step and
\* adds one layer when the matched step produced one.
C15_PrefixFollowsCursor ==
    \A n \in DOMAIN co :
        co[n].pc = "recv" =>
            /\ co[n].next - 1 = Matched(n)
            /\ co[n].prevStepCachedLayers
                  = EmittedUpTo(cacheFrom[n], co[n].next - 1)

\* C16: a request sent to a task that has gone through every step of its
\* history is answered (with a miss): no request stays on the request
\* channel of a task that has stopped receiving, blocking its sender for
\* good.
C16_ExhaustedAnswers ==
    \A n \in DOMAIN co :
        ~(/\ co[n].pc = "done"
          /\ Len(askLog[n]) = Len(cacheFrom[n].History)
          /\ reqChan[n].msg # <<>>)

\* everything task n owns: its locals, its two channels and its log
TaskState(n) == <<co[n], reqChan[n], resChan[n], askLog[n]>>

\* task n, or the build on its channels, has a step to take
TaskCanStep(n) ==
    /\ ~Crashed
    /\ \/ co[n].pc = "start"
       \/ co[n].pc = "recv" /\ (reqChan[n].msg # <<>> \/ reqChan[n].closed)
       \/ co[n].pc = "send" /\ resChan[n] # <<>>

C19_CompareInBounds ==
    \A n \in DOMAIN askLog :
        \A k \in DOMAIN askLog[n] : askLog[n][k].outcome \in {"hit", "miss"}

\* C20: a task answers every request it receives with exactly one response
\* before it receives the next, sends no response without a request, and
\* when its request channel is closed ends without sending anything more.
C20_RequestResponsePairs ==
    [][\A n \in DOMAIN co :
          /\ Len(askLog'[n]) > Len(askLog[n]) =>
                /\ resChan[n] = <<>>
                /\ Len(resChan'[n]) = 1
                /\ co'[n].pc = "send"
          /\ (resChan'[n] # resChan[n] /\ resChan'[n] # <<>>) =>
                Len(askLog'[n]) = Len(askLog[n]) + 1
          /\ (co[n].pc = "recv" /\ reqChan[n].closed /\ co'[n] # co[n]) =>
                (co'[n].pc = "done" /\ resChan'[n] = <<>>)
          /\ co[n].pc = "done" =>
                (co'[n].pc = "done" /\ resChan'[n] = <<>>)]_vars

(***************************************************************************)
(* Claims about MakeImageCacheForBuild.                                    *)
(***************************************************************************)
\* the names of the list that resolve to a stored image
Resolved(names) ==
    {names[i] : i \in {j \in DOMAIN names :
        ~GetImageByName(imageStore, refStore, names[j]).err}}

\* C12: MakeImageCacheForBuild returns for every list of names, skipping
\* the names that do not resolve, and the cache it returns holds exactly
\* the names that resolved, each with its image and the history derived
\* from it.
C12_ConstructionCompletes ==
    cache # NoResult =>
        /\ cache.pc = "returned"
        /\ MapKeys(cache.cacheFromImages) = Resolved(cache.arg)
        /\ MapKeys(cache.cacheFromImageHistories) = Resolved(cache.arg)
        /\ \A n \in Resolved(cache.arg) :
              /\ cache.cacheFromImages.entries[n] = imageStore[refStore[n]]
              /\ cache.cacheFromImageHistories.entries[n]
                    = makeHistoryWithSource(imageStore[refStore[n]]).steps

(***************************************************************************)
(* Claims about GetCachedImageOnBuild.                                     *)
(***************************************************************************)
\* the last call found an image by the direct parent/config match
DirectMatched(st) == st # NoResult /\ ~st.direct.err /\ st.direct.img # NilImage

\* the last call's direct match found nothing, without error
DirectMissed(st) == st # NoResult /\ ~st.direct.err /\ st.direct.img = NilImage

\* candidate n, in its present state, would answer the query with a match
WouldMatch(n, imgID, config) ==
    /\ imgID \in DOMAIN imageStore
    /\ ~NoPossibleMatch(CacheFromImageHistory(cacheFrom, n),
                        imageStore[imgID].History)
    /\ TrackerAsk(trk[n], CacheFromImageHistory(cacheFrom, n),
                  ExtractCommand(config), imageStore[imgID].DiffIDs).matched

\* C1: when the direct match finds an image, GetCachedImageOnBuild returns
\* that image's ID without error, no tracker state changes and the plugin
\* is not invoked, whatever the trackers would have answered.
C1_DirectHitFirst ==
    [][DirectMatched(step') =>
          /\ step'.answer = [found |-> TRUE, id |-> step'.direct.img,
                             err |-> FALSE, cachedFrom |-> "",
                             nextLayerID |-> NoLayer]
          /\ trk' = trk
          /\ ~step'.pluginCalled
          /\ \A n \in DOMAIN step'.asked : step'.asked[n] = "none"]_vars

\* the direct match found an image for a query that an open tracker would
\* have matched too
C1_Witness ==
    /\ DirectMatched(step)
    /\ \E n \in DOMAIN cacheFrom :
          WouldMatch(n, step.query.imgID, step.query.config)

\* the names whose trackers answered the last query with a match
Hits(st) == {n \in DOMAIN st.asked : st.asked[n] = "hit"}

C7_MissIsNilError ==
    (/\ DirectMissed(step)
     /\ step.query.imgID \in {ScratchID} \cup DOMAIN imageStore
     /\ Hits(step) = {}
     /\ ~(step.pluginCalled /\ PluginAccepted(imageStore, step.pluginOutcome)))
    => (~step.answer.found /\ step.answer.id = ScratchID /\ ~step.answer.err)

\* what candidate n did in the call st recorded
AskedAs(st, n) == IF n \in DOMAIN st.asked THEN st.asked[n] ELSE "none"

=============================================================================
